---- MODULE Spec2Model ----
(***************************************************************************)
(* bwget (src/bwget.py): the HTTP path of the downloader.                  *)
(*                                                                         *)
(* main() walks the URL list; for each URL it settles the expected digest  *)
(* (--sha256 or the <url>.sha256 sidecar) and calls download(), which      *)
(* probes the server (HEAD), plans resume/restart, opens the stream under  *)
(* the retry loop of _open_stream, writes the chunks and verifies the      *)
(* digest.  Exceptions and sys.exit() are modelled by the variable err and *)
(* the handlers that catch them.                                           *)
(*                                                                         *)
(* Sizes are counted in chunks: one element of a file or of a body is one  *)
(* chunk as iter_content yields it.  A string that is a digest is kept by  *)
(* what the code looks at: its length, whether all characters are hex      *)
(* digits, whether it is all lowercase, and its value up to case.          *)
(***************************************************************************)
EXTENDS Integers, Sequences, FiniteSets, TLC

(* ------------------------------ bounds -------------------------------- *)
\* longest URL list main() is run over
MaxUrls == 2
\* size of the remote resource, in chunks
RemoteLen == 2
\* largest cfg["max_retries"] tried (the smallest is 0)
MaxRetries == 3
\* largest cfg["base_backoff"] tried (the smallest is 1)
MaxBackoff == 2

(* ------------------------- program constants -------------------------- *)
\* a SHA-256 hex digest has 64 characters (bwget.py:249, 847, 853)
SHA256_HEX_LEN == 64

TRANSIENT_STATUS == {500, 502, 503, 504}
TRANSIENT_EXCEPTIONS == {"ConnectionError", "Timeout", "ChunkedEncodingError"}

\* the exceptions requests raises, by what went wrong.  "NameResolution" is
\* the ConnectionError requests raises for a host name that does not
\* resolve; "SSLError" is its exception for a failed TLS handshake or
\* certificate check
NetworkErrors ==
  {"ConnectionError", "NameResolution", "SSLError", "Timeout",
   "ChunkedEncodingError"}
\* the classes of requests.exceptions an exception is an instance of
Classes(type) ==
  CASE type = "NameResolution" -> {"ConnectionError", "RequestException"}
    [] type = "SSLError" -> {"SSLError", "ConnectionError", "RequestException"}
    [] type \in {"ConnectionError", "Timeout", "ChunkedEncodingError",
                 "HTTPError"} -> {type, "RequestException"}
    [] OTHER -> {type}
\* what an except clause naming the classes catches
IsInstance(type, classes) == Classes(type) \cap classes # {}
\* every requests exception the model raises is a RequestException
RequestExceptions == NetworkErrors \cup {"HTTPError", "RequestException"}

(* --------------------------- the environment -------------------------- *)
URLS == {"u1", "u2"}
\* the file names in play: the URL's own name, the -o path, a server hint
PATHS == {"f1", "f2", "out", "cd"}
\* HTTP error statuses a server answers with
ERROR_STATUS == TRANSIENT_STATUS \cup {403, 404, 416, 429}

\* the resource behind a URL
Remote(u) == [i \in 1..RemoteLen |-> 1 + (i % 2)]

Max(a, b) == IF a > b THEN a ELSE b

(* ------------------------------ digests ------------------------------- *)
\* hashlib.sha256: update() block by block; distinct contents, distinct values
RECURSIVE ShaUpdate(_, _)
ShaUpdate(h, data) ==
  IF data = <<>> THEN h ELSE ShaUpdate(4 * h + Head(data) + 1, Tail(data))

\* a string, as far as the digest checks read it
Str(v, n, hex, low) == [val |-> v, len |-> n, hex |-> hex, lower |-> low]
\* None and "" are both falsy and both stand for "no digest"
NoDigest == Str(0, 0, TRUE, TRUE)
Truthy(s) == s.len > 0
\* a conversion that leaves the case of the string as it is
Lower_KeepsCase(s) == s

\* str.lower()
Lower(s) == [s EXCEPT !.lower = TRUE]
\* sha.hexdigest(): 64 lowercase hex characters
HexDigest(data) == Str(ShaUpdate(0, data), SHA256_HEX_LEN, TRUE, TRUE)
\* len(token) == 64 and all(c in "0123456789abcdefABCDEF" for c in token)
IsHex64(s) == s.len = SHA256_HEX_LEN /\ s.hex

\* digest strings a user or a sidecar file may give for URL u
GoodDigest(u) == HexDigest(Remote(u))
DigestStrings(u) ==
  { GoodDigest(u),
    [GoodDigest(u) EXCEPT !.lower = FALSE],
    Str(0, SHA256_HEX_LEN, TRUE, TRUE),
    Str(0, SHA256_HEX_LEN - 1, TRUE, TRUE),
    Str(0, SHA256_HEX_LEN, FALSE, TRUE) }

(* ----------------------------- file system ---------------------------- *)
NoFile == [exists |-> FALSE, data |-> <<>>]
File(d) == [exists |-> TRUE, data |-> d]
\* st_size
Size(f) == Len(f.data)

\* contents a target may hold before the run: nothing, an empty file, a
\* partial download, the whole resource, a stale file of the same size and
\* one that is longer than the resource
LocalContents(u) ==
  { SubSeq(Remote(u), 1, n) : n \in 0..RemoteLen }
    \cup { [i \in 1..RemoteLen |-> 0], Remote(u) \o <<0>> }

VARIABLES
  ns,             \* parsed arguments: sha256, output, resume, and whether
                  \* the URL-list file they name can be read
  server,         \* what the servers of this run may answer with
  cfg,            \* max_retries, base_backoff, bandwidth_limit
  urls,           \* the URL list (as the arguments or the list file give it)
  idx,            \* position of the for loop of main()
  success_count,
  procExit,       \* exit status of the process, -1 while it runs
  fs,             \* path -> file
  pc,             \* where control is
  dl,             \* locals of download()
  os,             \* locals of _open_stream(): attempt, backoff
  r,              \* the open response: status, remaining body, headers
  err,            \* the exception in flight: type and status/exit code
  sleeps,         \* backoff sleeps of the current _open_stream call
  gets,           \* stream GETs issued by the current download() call
  attempted,      \* URLs download() was called for, in call order
  runs            \* how each pass of the for loop ended (RunRecord)

vars == <<ns, server, cfg, urls, idx, success_count, procExit, fs, pc, dl, os, r, err,
          sleeps, gets, attempted, runs>>

NoErr == [type |-> "none", code |-> 0]
Exc(t) == [type |-> t, code |-> 0]
HttpError(status) == [type |-> "HTTPError", code |-> status]
SystemExit(c) == [type |-> "SystemExit", code |-> c]

NoResp == [status |-> 0, body |-> <<>>, cl |-> 0, cd |-> ""]
OsIdle == [attempt |-> 0, backoff |-> 0, exc |-> NoErr]

DlIdle ==
  [ url |-> "", initial_out_path |-> "", final_out_path |-> "",
    explicit_output_given |-> FALSE, resume |-> FALSE,
    expected_sha256 |-> NoDigest, head_resp |-> FALSE,
    mode |-> "wb", downloaded_initial_size |-> 0, original_total_size |-> 0,
    server_supports_resume |-> FALSE, range |-> -1, dl_sess |-> 0,
    \* usage.free as ensure_disk_space finds it, in chunks (-1: the query of
    \* shutil.disk_usage raises)
    free |-> 0,
    \* the filename hint of the probe, "" while the walrus of bwget.py:540
    \* has bound none
    cd_fn |-> "",
    \* time.perf_counter() - start_t in clock ticks, followed while a
    \* bandwidth limit is set
    elapsed_bw |-> 0,
    \* for the record: the mode the target was opened in, its size when the
    \* plan was made (-1: no file), "Checksum OK", "Could not delete"
    opened |-> "", local_size |-> -1, checked |-> FALSE,
    could_not_delete |-> FALSE ]

\* the record of a pass of the for loop: 0 when download() returned, -1 when
\* the URL was skipped, else the exit status it ended with; the URL, the
\* digest expected, the target, and whether the digest was checked
RunRecord(code, url, d) ==
  [ code |-> code, url |-> url, sha |-> d.expected_sha256,
    path |-> d.final_out_path, checked |-> d.checked ]

(* ------------------------------- start -------------------------------- *)
\* the state main() starts its for loop in, for URL lists, argument values,
\* settings and local files drawn from the given sets
Start(urlLists, shaArgs, outputs, retries, backoffs, limits, files, servers) ==
  /\ urls \in urlLists
  /\ server \in servers
  /\ ns \in [sha256 : shaArgs, output : outputs, resume : BOOLEAN,
              input_readable : BOOLEAN]
  /\ cfg \in [max_retries : retries, base_backoff : backoffs,
               bandwidth_limit : limits]
  /\ fs \in files
  /\ idx = 1
  /\ success_count = 0
  /\ procExit = -1
  /\ pc = "start"
  /\ dl = DlIdle
  /\ os = OsIdle
  /\ r = NoResp
  /\ err = NoErr
  /\ sleeps = <<>>
  /\ gets = 0
  /\ attempted = <<>>
  /\ runs = <<>>

EmptyFs == [p \in PATHS |-> NoFile]
\* at most one file on disk, at path p
OneFile(paths, contents) ==
  {EmptyFs} \cup { [EmptyFs EXCEPT ![p] = File(d)] : p \in paths, d \in contents }

UrlLists(n) == UNION { [1..k -> URLS] : k \in 1..n }

(* ------------------------------- main() ------------------------------- *)
\* pick_initial_filename: the -o path, else the last segment of the URL path
pick_initial_filename(url, explicit_path_str) ==
  IF explicit_path_str # "" THEN explicit_path_str
  ELSE IF url = "u1" THEN "f1" ELSE "f2"

\* the call download(url, initial_path, ns.output is not None, ns.resume, sha)
CallDownload(url, expected_sha) ==
  /\ dl' = [DlIdle EXCEPT
              !.url = url,
              !.initial_out_path = pick_initial_filename(url, ns.output),
              !.final_out_path = pick_initial_filename(url, ns.output),
              !.explicit_output_given = (ns.output # ""),
              !.resume = ns.resume,
              !.expected_sha256 = expected_sha]
  /\ pc' = "probe"
  /\ os' = OsIdle
  /\ r' = NoResp
  /\ sleeps' = <<>>
  /\ gets' = 0
  /\ attempted' = Append(attempted, url)

\* --sha256 is rejected unless it is 64 hex characters (bwget.py:845-849)
InvalidShaArg(expected_sha) ==
  \/ ~Truthy(expected_sha)
  \/ expected_sha.len # SHA256_HEX_LEN
  \/ ~expected_sha.hex

\* bwget.py:810-834: the URL list is built; a list file that cannot be read
\* ends the run with sys.exit(1), which __main__ raises on
ReadUrls ==
  /\ pc = "start"
  /\ IF ns.input_readable
     THEN pc' = "main" /\ UNCHANGED procExit
     ELSE pc' = "exited" /\ procExit' = 1
  /\ UNCHANGED <<ns, server, cfg, urls, idx, success_count, fs, dl, os, r, err,
                 sleeps, gets, attempted, runs>>

\* the for loop is over: the summary is printed and main() returns
MainDone ==
  /\ pc = "main"
  /\ idx > Len(urls)
  /\ pc' = "exited"
  /\ procExit' = 0
  /\ UNCHANGED <<ns, server, cfg, urls, idx, success_count, fs, dl, os, r, err,
                 sleeps, gets, attempted, runs>>

\* a malformed --sha256: "Skipping", continue with the next URL
MainSkipInvalidSha ==
  /\ pc = "main"
  /\ idx <= Len(urls)
  /\ Truthy(ns.sha256)
  /\ InvalidShaArg(Lower(ns.sha256))
  /\ idx' = idx + 1
  /\ runs' = Append(runs, RunRecord(-1, urls[idx], DlIdle))
  /\ UNCHANGED <<ns, server, cfg, urls, success_count, procExit, fs, pc, dl, os, r,
                 err, sleeps, gets, attempted>>

\* a well-formed --sha256, lowercased, goes to download()
MainExplicitSha ==
  /\ pc = "main"
  /\ idx <= Len(urls)
  /\ Truthy(ns.sha256)
  /\ ~InvalidShaArg(Lower(ns.sha256))
  /\ CallDownload(urls[idx], Lower(ns.sha256))
  /\ UNCHANGED <<ns, server, cfg, urls, idx, success_count, procExit, fs, err, runs>>

\* no --sha256: fetch_remote_sha256 is called
MainFetchSha ==
  /\ pc = "main"
  /\ idx <= Len(urls)
  /\ ~Truthy(ns.sha256)
  /\ pc' = "sidecar"
  /\ UNCHANGED <<ns, server, cfg, urls, idx, success_count, procExit, fs, dl, os, r,
                 err, sleeps, gets, attempted, runs>>

\* what fetch_remote_sha256 returns for the first token of the sidecar
SidecarDigest(token) == IF IsHex64(token) THEN Lower(token) ELSE NoDigest

\* bwget.py:853-855: a fetched digest whose length is not 64 is dropped
DropBadLength(expected_sha) ==
  IF Truthy(expected_sha) /\ expected_sha.len # SHA256_HEX_LEN
  THEN NoDigest ELSE expected_sha

\* the GET of <url>.sha256 fails (RequestException, or an error status
\* through raise_for_status): no digest
FetchShaFailed ==
  /\ pc = "sidecar"
  /\ CallDownload(urls[idx], NoDigest)
  /\ UNCHANGED <<ns, server, cfg, urls, idx, success_count, procExit, fs, err, runs>>

\* the sidecar has a first line: its first token is checked
FetchShaToken ==
  /\ pc = "sidecar"
  /\ \E token \in DigestStrings(urls[idx]) \cap server.sidecars :
       CallDownload(urls[idx], DropBadLength(SidecarDigest(token)))
  /\ UNCHANGED <<ns, server, cfg, urls, idx, success_count, procExit, fs, err, runs>>

\* the sidecar is empty: r.text.strip().splitlines()[0] raises IndexError,
\* which only except RequestException would have caught
FetchShaEmpty ==
  /\ pc = "sidecar"
  /\ err' = Exc("IndexError")
  /\ pc' = "propagate"
  /\ UNCHANGED <<ns, server, cfg, urls, idx, success_count, procExit, fs, dl, os, r,
                 sleeps, gets, attempted, runs>>

(* ----------------------------- download() ----------------------------- *)
\* what a HEAD may come back with.  ok = FALSE stands for request_head
\* returning None and for a response with an error status, which is falsy:
\* the code reads no header of either.  cl is the Content-Length header:
\* 0 when absent, -1 when it is not a number.
HeadFailed == [ok |-> FALSE, cl |-> 0, ranges |-> FALSE, cd |-> ""]
\* the filename hints a server may give: none, "cd", and the name the URL
\* itself ends in
HINTS == {"", "cd", "f1"}
HeadResponses(u) ==
  { HeadFailed }
    \cup [ok : {TRUE}, cl : {-1, 0, Len(Remote(u))}, ranges : BOOLEAN,
          cd : HINTS]

\* bwget.py:539-542: the HEAD's filename hint moves the target, unless -o
RelocateOnHead(d, cd_fn) ==
  IF ~d.explicit_output_given /\ cd_fn # "" THEN cd_fn ELSE d.final_out_path

\* request_head and bwget.py:536-545
Probe ==
  /\ pc = "probe"
  /\ \E h \in HeadResponses(dl.url) \cap server.heads :
       IF h.ok /\ h.cl = -1
       THEN \* int() raises ValueError, outside the try of download()
            /\ err' = Exc("ValueError")
            /\ pc' = "propagate"
            /\ dl' = [dl EXCEPT !.head_resp = TRUE]
       ELSE /\ dl' = IF h.ok
                     THEN [dl EXCEPT
                             !.head_resp = TRUE,
                             !.original_total_size = h.cl,
                             !.server_supports_resume = h.ranges,
                             !.cd_fn = IF dl.explicit_output_given THEN ""
                                       ELSE h.cd,
                             !.final_out_path = RelocateOnHead(dl, h.cd)]
                     ELSE dl
            /\ pc' = "plan"
            /\ err' = err
  /\ UNCHANGED <<ns, server, cfg, urls, idx, success_count, procExit, fs, os, r,
                 sleeps, gets, attempted, runs>>

\* the plan with a resume that asks for the bytes from n - 1 on
PlanResume_RangeOffByOne(resume, f, original_total_size, server_supports_resume) ==
  LET fresh == [complete |-> FALSE, mode |-> "wb",
                downloaded_initial_size |-> 0, range |-> -1]
      n == Size(f)
  IN  IF resume /\ f.exists /\ n > 0
      THEN IF original_total_size # 0 /\ n = original_total_size
           THEN [fresh EXCEPT !.complete = TRUE, !.downloaded_initial_size = n]
           ELSE IF original_total_size # 0 /\ n > original_total_size
           THEN fresh
           ELSE [fresh EXCEPT !.mode = "ab", !.downloaded_initial_size = n,
                              !.range = n - 1]
      ELSE fresh

\* the plan without the "already downloaded" case: a file of the full size
\* is resumed like a partial one
PlanResume_NoComplete(resume, f, original_total_size, server_supports_resume) ==
  LET fresh == [complete |-> FALSE, mode |-> "wb",
                downloaded_initial_size |-> 0, range |-> -1]
      n == Size(f)
  IN  IF resume /\ f.exists /\ n > 0
      THEN IF original_total_size # 0 /\ n > original_total_size
           THEN fresh
           ELSE [fresh EXCEPT !.mode = "ab", !.downloaded_initial_size = n,
                              !.range = n]
      ELSE fresh

\* the plan without the "larger, starting fresh" case: a file longer than
\* the resource is resumed from its end
PlanResume_NoFresh(resume, f, original_total_size, server_supports_resume) ==
  LET fresh == [complete |-> FALSE, mode |-> "wb",
                downloaded_initial_size |-> 0, range |-> -1]
      n == Size(f)
  IN  IF resume /\ f.exists /\ n > 0
      THEN IF original_total_size # 0 /\ n = original_total_size
           THEN [fresh EXCEPT !.complete = TRUE, !.downloaded_initial_size = n]
           ELSE [fresh EXCEPT !.mode = "ab", !.downloaded_initial_size = n,
                              !.range = n]
      ELSE fresh

\* the plan that resumes only when the probe declared byte-range support:
\* without "Accept-Ranges: bytes" a partial file is fetched from scratch
PlanResume_NeedsRanges(resume, f, original_total_size, server_supports_resume) ==
  LET fresh == [complete |-> FALSE, mode |-> "wb",
                downloaded_initial_size |-> 0, range |-> -1]
      n == Size(f)
  IN  IF resume /\ f.exists /\ n > 0
      THEN IF original_total_size # 0 /\ n = original_total_size
           THEN [fresh EXCEPT !.complete = TRUE, !.downloaded_initial_size = n]
           ELSE IF original_total_size # 0 /\ n > original_total_size
           THEN fresh
           ELSE IF server_supports_resume
           THEN [fresh EXCEPT !.mode = "ab", !.downloaded_initial_size = n,
                              !.range = n]
           ELSE fresh
      ELSE fresh

\* bwget.py:547-579, the resume plan for the file f found at the target:
\* complete (nothing to transfer), or the open mode, the bytes taken as
\* already downloaded and the Range offset (-1: no Range header)
PlanResume(resume, f, original_total_size, server_supports_resume) ==
  LET fresh == [complete |-> FALSE, mode |-> "wb",
                downloaded_initial_size |-> 0, range |-> -1]
      n == Size(f)
  IN  IF resume /\ f.exists
      THEN IF n > 0
           THEN IF original_total_size # 0 /\ n = original_total_size
                THEN [fresh EXCEPT !.complete = TRUE,
                                   !.downloaded_initial_size = n]
                ELSE IF original_total_size # 0 /\ n > original_total_size
                THEN fresh
                ELSE IF server_supports_resume \/ n > 0
                THEN [fresh EXCEPT !.mode = "ab",
                                   !.downloaded_initial_size = n,
                                   !.range = n]
                ELSE fresh
           ELSE fresh
      ELSE fresh

\* the plan is taken; "already downloaded" returns, after the verifier when
\* a digest is expected
Plan ==
  /\ pc = "plan"
  /\ LET f == fs[dl.final_out_path]
         p == PlanResume(dl.resume, f, dl.original_total_size,
                         dl.server_supports_resume)
     IN  /\ dl' = [dl EXCEPT
                     !.mode = p.mode,
                     !.downloaded_initial_size = p.downloaded_initial_size,
                     !.range = p.range,
                     !.local_size = IF f.exists THEN Size(f) ELSE -1]
         /\ pc' = IF p.complete
                  THEN IF Truthy(dl.expected_sha256) THEN "verify_ac"
                       ELSE "returned"
                  ELSE "open"
         /\ os' = IF p.complete THEN os
                  ELSE [attempt |-> 0, backoff |-> cfg.base_backoff,
                        exc |-> NoErr]
  /\ UNCHANGED <<ns, server, cfg, urls, idx, success_count, procExit, fs, r, err,
                 sleeps, gets, attempted, runs>>

(* ---------------------------- _open_stream ---------------------------- *)
\* bodies a server may answer a stream GET with: the whole resource (200),
\* no body at all (204), or, when a Range header asks for bytes=n- inside
\* it, the rest (206); raise_for_status passes all three
Bodies(u, range) ==
  { [status |-> 200, body |-> Remote(u)],
    [status |-> 204, body |-> <<>>] }
    \cup (IF range >= 0 /\ range < Len(Remote(u))
          THEN { [status |-> 206,
                  body |-> SubSeq(Remote(u), range + 1, Len(Remote(u)))] }
          ELSE {})

\* the Content-Length header of a body: right, absent (0), not a number (-1)
LengthHeaders(body) == {Len(body), 0, -1}

\* successful responses: Content-Length right, absent (0) or not a number
\* (-1); a filename hint or none
GetResponses(u, range) ==
  UNION { [status : {b.status}, body : {b.body}, cl : LengthHeaders(b.body),
           cd : HINTS] : b \in Bodies(u, range) }

\* the responses among them that the servers of this run give
Served(u, range) ==
  { g \in GetResponses(u, range) :
      /\ g.status \in server.statuses
      /\ g.cd \in server.hints
      /\ (g.cl = Len(g.body) \/ g.cl \in server.lengths) }

\* a retry test that looks at the attempts left only
RetryHttpError_AnyStatus(status_code, attempt, max_r) == attempt < max_r

\* bwget.py:279: an HTTPError is retried when its status is transient and
\* attempts are left
RetryHttpError(status_code, attempt, max_r) ==
  status_code \in TRANSIENT_STATUS /\ attempt < max_r

\* a retry test that lets one attempt too many through
RetryTransient_OneMore(attempt, max_r) == ~(attempt > max_r)

\* bwget.py:288: a transient exception is retried unless attempts ran out
RetryTransient(attempt, max_r) == ~(attempt >= max_r)

\* bwget.py:284, 294
NextBackoff(backoff) == backoff * 2

\* one pass of the while loop up to the GET: attempt += 1, requests.get
Attempt ==
  /\ pc = "open"
  /\ gets' = gets + 1

\* the locals of _open_stream after attempt += 1, with the exception the
\* except clause it is in has bound to exc (NoErr outside of one)
Attempted(exc) == [os EXCEPT !.attempt = os.attempt + 1, !.exc = exc]

\* the failed attempt is retried: the warning, then time.sleep(backoff)
GoSleep(e) ==
  /\ os' = Attempted(e)
  /\ pc' = "backoff"
  /\ sleeps' = Append(sleeps, os.backoff)
  /\ UNCHANGED <<r, err>>

\* the failed attempt is not retried: raise, into the handlers of download()
Raise(e) ==
  /\ os' = Attempted(NoErr)
  /\ pc' = "except"
  /\ err' = e
  /\ UNCHANGED <<r, sleeps>>

\* the GET succeeds and raise_for_status passes: the response is returned
OpenOk ==
  /\ Attempt
  /\ os' = Attempted(NoErr)
  /\ \E resp \in Served(dl.url, dl.range) : r' = resp
  \* the room on the target's filesystem while the response is handled
  /\ \E free \in server.free : dl' = [dl EXCEPT !.free = free]
  /\ pc' = "opened"
  /\ UNCHANGED <<ns, server, cfg, urls, idx, success_count, procExit, fs, err,
                 sleeps, attempted, runs>>

\* raise_for_status raises HTTPError
OpenHttpError ==
  /\ \E status \in ERROR_STATUS \cap server.statuses :
       /\ Attempt
       /\ IF RetryHttpError(status, os.attempt + 1, cfg.max_retries)
          THEN GoSleep(HttpError(status))
          ELSE Raise(HttpError(status))
  /\ UNCHANGED <<ns, server, cfg, urls, idx, success_count, procExit, fs, dl,
                 attempted, runs>>

\* requests.get raises an exception that except TRANSIENT_EXCEPTIONS
\* catches
OpenTransient ==
  /\ \E e \in server.errors :
       /\ IsInstance(e, TRANSIENT_EXCEPTIONS)
       /\ Attempt
       /\ IF RetryTransient(os.attempt + 1, cfg.max_retries)
          THEN GoSleep(Exc(e))
          ELSE Raise(Exc(e))
  /\ UNCHANGED <<ns, server, cfg, urls, idx, success_count, procExit, fs, dl,
                 attempted, runs>>

\* requests.get raises another RequestException (TooManyRedirects,
\* InvalidURL, ...): neither except clause of _open_stream catches it
OpenOtherError ==
  /\ Attempt
  /\ Raise(Exc("RequestException"))
  /\ UNCHANGED <<ns, server, cfg, urls, idx, success_count, procExit, fs, dl,
                 attempted, runs>>

\* time.sleep(backoff) returns: backoff *= 2, the except clause ends (exc
\* is unbound) and the loop goes round
Backoff ==
  /\ pc = "backoff"
  /\ os' = [os EXCEPT !.backoff = NextBackoff(os.backoff), !.exc = NoErr]
  /\ pc' = "open"
  /\ UNCHANGED <<ns, server, cfg, urls, idx, success_count, procExit, fs, dl, r, err,
                 sleeps, gets, attempted, runs>>

(* ------------------------ download(): the stream ---------------------- *)
\* bwget.py:588-597: the GET's filename hint moves the target when there was
\* no -o and the target is still the initial one (or the HEAD gave nothing)
RelocateOnGet(d, cd_fn_get) ==
  IF /\ ~d.explicit_output_given
     /\ (d.final_out_path = d.initial_out_path \/ ~d.head_resp)
     /\ cd_fn_get # ""
  THEN cd_fn_get
  ELSE d.final_out_path

\* a total that knows the probe's size only
TotalProg_ProbeOnly(d, resp_len) == d.original_total_size

\* bwget.py:603-606
TotalProg(d, resp_len) ==
  IF d.original_total_size # 0 THEN d.original_total_size
  ELSE IF d.mode = "ab" THEN d.downloaded_initial_size + resp_len
  ELSE resp_len

\* bwget.py:609
RequiredSize(d, resp_len) ==
  IF d.mode = "wb" THEN TotalProg(d, resp_len)
  ELSE Max(0, TotalProg(d, resp_len) - d.downloaded_initial_size)

\* a guard that lets a transfer through that is one chunk too large
SpaceShort_OffByOne(free, required_bytes) == free + 1 < required_bytes

\* ensure_disk_space: sys.exit(1) when the free space is short
SpaceShort(free, required_bytes) == free < required_bytes

\* bwget.py:610-611 and ensure_disk_space: the guard is consulted when the
\* required size is not 0, and stops the transfer when the query of the
\* free space succeeds and finds it short
GuardStops(d, resp_len) ==
  /\ RequiredSize(d, resp_len) # 0
  /\ d.free # -1
  /\ SpaceShort(d.free, RequiredSize(d, resp_len))

\* final_out_path.open(mode): "wb" truncates or creates, "ab" keeps or creates
OpenFile(f, mode) ==
  IF mode = "ab" /\ f.exists THEN f ELSE File(<<>>)

\* the Content-Length of the stream response is not a number: int() raises
\* ValueError inside the try
OpenedBadLength ==
  /\ pc = "opened"
  /\ r.cl = -1
  /\ dl' = [dl EXCEPT !.final_out_path = RelocateOnGet(dl, r.cd)]
  /\ err' = Exc("ValueError")
  /\ pc' = "except"
  /\ UNCHANGED <<ns, server, cfg, urls, idx, success_count, procExit, fs, os, r,
                 sleeps, gets, attempted, runs>>

\* ensure_disk_space finds too little room: sys.exit(1), which no handler
\* of download() catches
OpenedNoSpace ==
  /\ pc = "opened"
  /\ r.cl # -1
  /\ GuardStops(dl, r.cl)
  /\ dl' = [dl EXCEPT !.final_out_path = RelocateOnGet(dl, r.cd)]
  /\ err' = SystemExit(1)
  /\ pc' = "propagate"
  /\ UNCHANGED <<ns, server, cfg, urls, idx, success_count, procExit, fs, os, r,
                 sleeps, gets, attempted, runs>>

\* there is room (or no size to check, or disk_usage failed): the target is
\* opened in the planned mode
OpenedWrite ==
  /\ pc = "opened"
  /\ r.cl # -1
  /\ ~GuardStops(dl, r.cl)
  /\ LET target == RelocateOnGet(dl, r.cd)
     IN  /\ dl' = [dl EXCEPT !.final_out_path = target, !.opened = dl.mode,
                             !.free = 0]
         /\ fs' = [fs EXCEPT ![target] = OpenFile(fs[target], dl.mode)]
  \* the headers are read; what is left of the response is its body
  /\ r' = [r EXCEPT !.cl = 0, !.cd = ""]
  /\ pc' = "writing"
  /\ UNCHANGED <<ns, server, cfg, urls, idx, success_count, procExit, os, err,
                 sleeps, gets, attempted, runs>>

\* clock ticks per second
TICKS == 2
\* longest time a chunk takes to arrive, in ticks
MaxDelay == 1

\* bwget.py:639-643: the time on the clock after the throttle: when the
\* dl_sess chunks written so far should have taken longer than the time
\* elapsed, the difference is slept
Throttled(dl_sess, bandwidth_limit, elapsed_bw) ==
  LET expected == (dl_sess * TICKS) \div bandwidth_limit
  IN  IF expected > elapsed_bw THEN expected ELSE elapsed_bw

\* one chunk of iter_content arrives: the throttle when a limit is set, then
\* f.write(chunk); dl_sess += len(chunk)
WriteChunk ==
  /\ pc = "writing"
  /\ r.body # <<>>
  /\ fs' = [fs EXCEPT ![dl.final_out_path].data = Append(@, Head(r.body))]
  /\ r' = [r EXCEPT !.body = Tail(r.body)]
  /\ \E delay \in 0..MaxDelay :
       dl' = [dl EXCEPT
                !.dl_sess = dl.dl_sess + 1,
                !.elapsed_bw =
                   IF cfg.bandwidth_limit > 0
                   THEN Throttled(dl.dl_sess, cfg.bandwidth_limit,
                                  dl.elapsed_bw + delay)
                   ELSE 0]
  /\ UNCHANGED <<ns, server, cfg, urls, idx, success_count, procExit, pc, os, err,
                 sleeps, gets, attempted, runs>>

\* a reader that answers a dropped connection by opening the stream again
StreamError_Reopens ==
  /\ pc = "writing"
  /\ r.body # <<>>
  /\ TRANSIENT_EXCEPTIONS \cap server.errors # {}
  /\ pc' = "open"
  /\ UNCHANGED <<ns, server, cfg, urls, idx, success_count, procExit, fs, dl, os, r,
                 err, sleeps, gets, attempted, runs>>

\* the connection drops while the body is read: iter_content raises
StreamError ==
  /\ pc = "writing"
  /\ r.body # <<>>
  /\ \E e \in TRANSIENT_EXCEPTIONS \cap server.errors : err' = Exc(e)
  /\ pc' = "except"
  /\ UNCHANGED <<ns, server, cfg, urls, idx, success_count, procExit, fs, dl, os, r,
                 sleeps, gets, attempted, runs>>

\* the body is read to its end: the file is closed; the verifier runs when
\* a digest is expected and the file is not empty; else "Saved"
StreamEnd ==
  /\ pc = "writing"
  /\ r.body = <<>>
  /\ LET f == fs[dl.final_out_path]
         f_size == IF f.exists THEN Size(f) ELSE 0
     IN  pc' = IF Truthy(dl.expected_sha256) /\ f_size # 0
               THEN "verify" ELSE "returned"
  /\ UNCHANGED <<ns, server, cfg, urls, idx, success_count, procExit, fs, dl, os, r,
                 err, sleeps, gets, attempted, runs>>

(* -------------------- verify_sha256_with_progress --------------------- *)
\* a verifier that accepts every file
DigestMatches_Always(file_digest, expected_digest) == TRUE

\* bwget.py:318
DigestMatches(file_digest, expected_digest) == file_digest = expected_digest

\* an unlink that leaves the file where it is
Unlink_Keeps(files, path, unlink_ok) == files

\* file_path.unlink(): the file goes, unless the call fails with OSError
Unlink(files, path, unlink_ok) ==
  IF unlink_ok THEN [files EXCEPT ![path] = NoFile] ELSE files

\* "Checksum OK": the verifier returns, and download() after it
VerifyOk ==
  /\ pc \in {"verify", "verify_ac"}
  /\ DigestMatches(HexDigest(fs[dl.final_out_path].data), dl.expected_sha256)
  /\ pc' = "returned"
  /\ dl' = [dl EXCEPT !.checked = TRUE]
  /\ UNCHANGED <<ns, server, cfg, urls, idx, success_count, procExit, fs, os, r,
                 err, sleeps, gets, attempted, runs>>

\* "SHA-256 mismatch!": the file is unlinked (best effort), sys.exit(2)
VerifyMismatch ==
  /\ pc \in {"verify", "verify_ac"}
  /\ ~DigestMatches(HexDigest(fs[dl.final_out_path].data), dl.expected_sha256)
  /\ \E unlink_ok \in BOOLEAN :
       /\ fs' = Unlink(fs, dl.final_out_path, unlink_ok)
       /\ dl' = [dl EXCEPT !.could_not_delete = ~unlink_ok]
  /\ err' = SystemExit(2)
  /\ pc' = "propagate"
  /\ UNCHANGED <<ns, server, cfg, urls, idx, success_count, procExit, os, r,
                 sleeps, gets, attempted, runs>>

(* ---------------------- download(): the handlers ---------------------- *)
\* the places a KeyboardInterrupt can arrive at, and those of them that lie
\* inside the try of download() (bwget.py:581-670)
InterruptPoints == {"sidecar", "probe", "open", "backoff", "writing",
                    "verify", "verify_ac"}
InTry(at) == at \in {"open", "backoff", "opened", "writing", "verify"}

\* Ctrl-C: KeyboardInterrupt is raised where control is
Interrupt ==
  /\ pc \in InterruptPoints
  /\ err' = Exc("KeyboardInterrupt")
  /\ pc' = IF InTry(pc) THEN "except" ELSE "propagate"
  /\ UNCHANGED <<ns, server, cfg, urls, idx, success_count, procExit, fs, dl, os, r,
                 sleeps, gets, attempted, runs>>

\* except KeyboardInterrupt: "Interrupted", the partial file is kept,
\* sys.exit(130)
ExceptKeyboardInterrupt ==
  /\ pc = "except"
  /\ err.type = "KeyboardInterrupt"
  /\ err' = SystemExit(130)
  /\ pc' = "propagate"
  /\ UNCHANGED <<ns, server, cfg, urls, idx, success_count, procExit, fs, dl, os, r,
                 sleeps, gets, attempted, runs>>

\* a cleanup that also takes a file that was being resumed
DeleteIncomplete_Always(mode, f, downloaded_initial_size) == f.exists

\* bwget.py:689: the target is deleted when it was being written from
\* scratch
DeleteIncomplete(mode, f, downloaded_initial_size) ==
  mode = "wb" /\ f.exists /\ downloaded_initial_size = 0

\* except RequestException: "Download failed", the cleanup, sys.exit(1)
ExceptRequestException ==
  /\ pc = "except"
  /\ err.type \in RequestExceptions
  /\ IF DeleteIncomplete(dl.mode, fs[dl.final_out_path],
                         dl.downloaded_initial_size)
     THEN \E unlink_ok \in BOOLEAN :
            /\ fs' = Unlink(fs, dl.final_out_path, unlink_ok)
            /\ dl' = [dl EXCEPT !.could_not_delete = ~unlink_ok]
     ELSE UNCHANGED <<fs, dl>>
  /\ err' = SystemExit(1)
  /\ pc' = "propagate"
  /\ UNCHANGED <<ns, server, cfg, urls, idx, success_count, procExit, os, r,
                 sleeps, gets, attempted, runs>>

\* except Exception: "Unexpected error", sys.exit(3)
ExceptException ==
  /\ pc = "except"
  /\ err.type \in {"ValueError"}
  /\ err' = SystemExit(3)
  /\ pc' = "propagate"
  /\ UNCHANGED <<ns, server, cfg, urls, idx, success_count, procExit, fs, dl, os, r,
                 sleeps, gets, attempted, runs>>

(* ----------------------- main(): after download() --------------------- *)
\* the locals of the call that ended are gone
EndCall ==
  /\ dl' = DlIdle
  /\ os' = OsIdle
  /\ r' = NoResp
  /\ err' = NoErr
  /\ sleeps' = <<>>
  /\ gets' = 0

\* download() returned: success_count += 1
MainSuccess ==
  /\ pc = "returned"
  /\ success_count' = success_count + 1
  /\ runs' = Append(runs, RunRecord(0, urls[idx], dl))
  /\ idx' = idx + 1
  /\ pc' = "main"
  /\ EndCall
  /\ UNCHANGED <<ns, server, cfg, urls, procExit, fs, attempted>>

\* an except SystemExit that raises nothing again
Reraise_Never(code) == FALSE

\* bwget.py:872: only status 130 is raised again by except SystemExit
Reraise(code) == code = 130

\* except SystemExit in main(): 130 leaves main() and ends the process (the
\* __main__ block raises SystemExit on); any other code: next URL
MainExceptSystemExit ==
  /\ pc = "propagate"
  /\ err.type = "SystemExit"
  /\ runs' = Append(runs, RunRecord(err.code, urls[idx], dl))
  /\ IF Reraise(err.code)
     THEN /\ procExit' = err.code
          /\ pc' = "exited"
          /\ UNCHANGED idx
     ELSE /\ idx' = idx + 1
          /\ pc' = "main"
          /\ UNCHANGED procExit
  /\ EndCall
  /\ UNCHANGED <<ns, server, cfg, urls, success_count, fs, attempted>>

\* bwget.py:886-893: the exit status for an exception that leaves main()
TopLevelStatus(type) == IF type = "KeyboardInterrupt" THEN 130 ELSE 3

\* an exception other than SystemExit leaves main(): the __main__ block
\* turns it into an exit status
TopLevel ==
  /\ pc = "propagate"
  /\ err.type # "SystemExit"
  /\ procExit' = TopLevelStatus(err.type)
  /\ runs' = Append(runs, RunRecord(TopLevelStatus(err.type), urls[idx], dl))
  /\ pc' = "exited"
  /\ EndCall
  /\ UNCHANGED <<ns, server, cfg, urls, idx, success_count, fs, attempted>>

(* --------------------------- specifications --------------------------- *)
\* cfg defaults (bwget.py:96)
DEFAULT_MAX_RETRIES == 3
DEFAULT_BASE_BACKOFF == 1
\* cfg default (bwget.py:103): 0, no limit
DEFAULT_BANDWIDTH_LIMIT == 0

ShaArgs == {NoDigest, [GoodDigest("u1") EXCEPT !.lower = FALSE],
            Str(0, SHA256_HEX_LEN - 1, TRUE, TRUE)}

\* servers that may answer with anything the model knows (of the statuses
\* that are not retried: 403, 404 and 416; of the filename hints: "cd")
AnyServer ==
  [ heads |-> { h \in UNION { HeadResponses(u) : u \in URLS } :
                  h.cd \in {"", "cd"} },
    statuses |-> {200, 206} \cup (ERROR_STATUS \ {429}),
    lengths |-> {0, -1},
    hints |-> {"", "cd"},
    errors |-> NetworkErrors,
    free |-> {-1, 0, RemoteLen - 1, RemoteLen},
    sidecars |-> UNION { DigestStrings(u) : u \in URLS } ]

\* servers that send no filename hint, answer a HEAD with the size and
\* Accept-Ranges (or a Content-Length that is no number), and fail with 404,
\* 429, 503 or a timeout
PlainServer ==
  [ heads |-> { HeadFailed,
                [ok |-> TRUE, cl |-> RemoteLen, ranges |-> TRUE, cd |-> ""],
                [ok |-> TRUE, cl |-> -1, ranges |-> TRUE, cd |-> ""] },
    statuses |-> {200, 206, 404, 429, 503},
    lengths |-> {-1},
    hints |-> {""},
    errors |-> {"Timeout"},
    free |-> {RemoteLen - 1, RemoteLen},
    sidecars |-> UNION { DigestStrings(u) : u \in URLS } ]

\* one URL, default settings, every local file state, any server
Init ==
  Start({<<"u1">>}, ShaArgs, {"", "out"}, {DEFAULT_MAX_RETRIES},
        {DEFAULT_BASE_BACKOFF}, {DEFAULT_BANDWIDTH_LIMIT},
        OneFile({"f1", "out", "cd"}, LocalContents("u1")), {AnyServer})

Next ==
  \/ ReadUrls
  \/ MainDone
  \/ MainSkipInvalidSha
  \/ MainExplicitSha
  \/ MainFetchSha
  \/ FetchShaFailed
  \/ FetchShaToken
  \/ FetchShaEmpty
  \/ Probe
  \/ Plan
  \/ OpenOk
  \/ OpenHttpError
  \/ OpenTransient
  \/ OpenOtherError
  \/ Backoff
  \/ OpenedBadLength
  \/ OpenedNoSpace
  \/ OpenedWrite
  \/ WriteChunk
  \/ StreamError
  \/ StreamEnd
  \/ VerifyOk
  \/ VerifyMismatch
  \/ Interrupt
  \/ ExceptKeyboardInterrupt
  \/ ExceptRequestException
  \/ ExceptException
  \/ MainSuccess
  \/ MainExceptSystemExit
  \/ TopLevel

Spec == Init /\ [][Next]_vars

\* URL lists of up to MaxUrls URLs (the two URLs are alike, so the first of
\* a list is taken to be u1), default settings, no file on disk
InitBatch ==
  Start({ l \in UrlLists(MaxUrls) : l[1] = "u1" }, ShaArgs, {""},
        {DEFAULT_MAX_RETRIES}, {DEFAULT_BASE_BACKOFF},
        {DEFAULT_BANDWIDTH_LIMIT}, {EmptyFs}, {PlainServer})

SpecBatch == InitBatch /\ [][Next]_vars

\* one URL, every retry budget and base backoff
InitRetry ==
  Start({<<"u1">>}, ShaArgs, {""}, 0..MaxRetries, 1..MaxBackoff,
        {DEFAULT_BANDWIDTH_LIMIT}, OneFile({"f1"}, {Remote("u1")}),
        {PlainServer})

SpecRetry == InitRetry /\ [][Next]_vars

\* plain servers that may also answer without a body (204 No Content)
EmptyServer == [ PlainServer EXCEPT !.statuses = @ \cup {204} ]

\* one URL, default settings, the target complete or absent, servers that
\* may send an empty body
InitEmpty ==
  Start({<<"u1">>}, ShaArgs, {""}, {DEFAULT_MAX_RETRIES},
        {DEFAULT_BASE_BACKOFF}, {DEFAULT_BANDWIDTH_LIMIT},
        OneFile({"f1"}, {Remote("u1")}), {EmptyServer})

SpecEmpty == InitEmpty /\ [][Next]_vars

\* plain servers whose sidecar file holds the digest in uppercase
UpperServer ==
  [ PlainServer EXCEPT
      !.sidecars = { [GoodDigest(u) EXCEPT !.lower = FALSE] : u \in URLS } ]

\* one URL, default settings, the target complete or absent, digests in
\* uppercase on the command line and in the sidecar file
InitCase ==
  Start({<<"u1">>}, ShaArgs, {""}, {DEFAULT_MAX_RETRIES},
        {DEFAULT_BASE_BACKOFF}, {DEFAULT_BANDWIDTH_LIMIT},
        OneFile({"f1"}, {Remote("u1")}), {UpperServer})

SpecCase == InitCase /\ [][Next]_vars

\* the retry runs under fairness: requests.get is called with a timeout
\* and time.sleep(backoff) returns, so a step that can be taken is taken
SpecRetryFair == InitRetry /\ [][Next]_vars /\ WF_vars(Next)

\* servers like the plain ones that also send filename hints, with the probe
\* response and with the stream response
HintServer ==
  [ PlainServer EXCEPT
      !.heads = { HeadFailed }
                  \cup [ok : {TRUE}, cl : {RemoteLen}, ranges : {TRUE},
                        cd : HINTS],
      !.hints = HINTS ]

\* one URL, no -o or -o out, servers that send filename hints
InitHints ==
  Start({<<"u1">>}, ShaArgs, {"", "out"}, {DEFAULT_MAX_RETRIES},
        {DEFAULT_BASE_BACKOFF}, {DEFAULT_BANDWIDTH_LIMIT},
        OneFile({"f1"}, {SubSeq(Remote("u1"), 1, 1)}), {HintServer})

SpecHints == InitHints /\ [][Next]_vars

\* the bandwidth limits tried, in chunks per second
Limits == {1, 2}

\* one URL, a bandwidth limit
InitThrottle ==
  Start({<<"u1">>}, ShaArgs, {""}, {DEFAULT_MAX_RETRIES},
        {DEFAULT_BASE_BACKOFF}, Limits,
        OneFile({"f1"}, {SubSeq(Remote("u1"), 1, 1)}), {PlainServer})

SpecThrottle == InitThrottle /\ [][Next]_vars

(* ------------------------------ the claims ---------------------------- *)
\* download() is past its plan: the plan's fields of dl are set
Planned == dl.url # "" /\ pc \notin {"probe", "plan"}

\* the size of the resource the URL of the current call names
RemoteSize == Len(Remote(dl.url))

\* C1: when resume is requested, the local target is a partial file of size
\* N (0 < N < remote size) and the probe declares byte-range support, the
\* stream GET carries Range: bytes=N- and the file is opened in append mode.
C1_ResumeOffset ==
  ( /\ Planned
    /\ dl.resume
    /\ dl.head_resp /\ dl.server_supports_resume
    /\ dl.local_size > 0 /\ dl.local_size < RemoteSize )
  => /\ dl.range = dl.local_size
     /\ dl.mode = "ab"
     /\ dl.downloaded_initial_size = dl.local_size
     /\ (dl.opened # "" => dl.opened = "ab")

\* a partial file of one chunk is being resumed: the GET went out with
\* bytes=1- and the file is open for append
C1_Witness ==
  /\ Planned /\ dl.resume /\ dl.head_resp /\ dl.server_supports_resume
  /\ dl.local_size = 1 /\ dl.original_total_size = RemoteSize
  /\ gets > 0 /\ dl.range = 1 /\ dl.opened = "ab" /\ pc = "writing"

\* C2 as stated: whenever the local target exists and its size equals the
\* total size the probe reported, no stream GET is issued and nothing is
\* written (resume requested or not).
C2_Original ==
  ( /\ Planned
    /\ dl.head_resp /\ dl.original_total_size > 0
    /\ dl.local_size = dl.original_total_size )
  => gets = 0 /\ dl.dl_sess = 0 /\ dl.opened = ""

\* C2, amended: when resume is requested and the local target's size equals
\* the total size the probe reported (a known, nonzero size), download()
\* takes the "already downloaded" way out: no stream GET, the file is not
\* opened for writing, and the verifier runs exactly when a digest is
\* expected.
C2_AlreadyComplete ==
  ( /\ Planned
    /\ dl.resume
    /\ dl.head_resp /\ dl.original_total_size > 0
    /\ dl.local_size = dl.original_total_size )
  => /\ gets = 0 /\ dl.dl_sess = 0 /\ dl.opened = ""
     /\ pc \in {"verify_ac", "returned", "propagate"}
     /\ (pc = "verify_ac" => Truthy(dl.expected_sha256))
     /\ (pc = "returned" => (dl.checked <=> Truthy(dl.expected_sha256)))
     /\ (pc = "propagate" => Truthy(dl.expected_sha256))

\* a complete file was found, its digest checked, and download() returned
\* without a GET
C2_Witness ==
  /\ Planned /\ dl.resume /\ dl.head_resp
  /\ dl.local_size = RemoteSize /\ dl.original_total_size = RemoteSize
  /\ pc = "returned" /\ dl.checked /\ gets = 0

\* C9: when the local target is larger than the total size the probe
\* reported, the transfer starts again from offset 0: no Range header is
\* sent, the file is opened in truncate mode and holds only what this
\* transfer wrote.
C9_LargerStartsFresh ==
  ( /\ Planned
    /\ dl.head_resp /\ dl.original_total_size > 0
    /\ dl.local_size > dl.original_total_size )
  => /\ dl.range = -1
     /\ dl.mode = "wb"
     /\ dl.downloaded_initial_size = 0
     /\ (dl.opened # "" => dl.opened = "wb")
     /\ (pc = "writing" =>
           fs[dl.final_out_path].data = SubSeq(Remote(dl.url), 1, dl.dl_sess))

\* a file longer than the resource was found with resume on, and the whole
\* resource has been written over it
C9_Witness ==
  /\ Planned /\ dl.resume /\ dl.head_resp
  /\ dl.original_total_size = RemoteSize /\ dl.local_size = RemoteSize + 1
  /\ pc = "writing" /\ dl.dl_sess = RemoteSize
  /\ fs[dl.final_out_path].data = Remote(dl.url)

\* the error _open_stream raised is a transient one
TransientErr(e) ==
  \/ e.type \in TRANSIENT_EXCEPTIONS
  \/ e.type = "HTTPError" /\ e.code \in TRANSIENT_STATUS

\* _open_stream has just raised (no response was ever returned to download())
OpenRaised == pc = "except" /\ r = NoResp /\ err.type \in RequestExceptions

\* C3: when every stream-open attempt fails transiently and max_retries is
\* M >= 1, _open_stream raises the last error after exactly M GETs and M - 1
\* backoff sleeps, the first of base_backoff and each later one double the
\* one before.  (An attempt that fails otherwise ends the loop at once, so a
\* transient last error means every attempt failed transiently.)
C3_RetryBudget ==
  (OpenRaised /\ TransientErr(err) /\ cfg.max_retries >= 1)
  => /\ os.attempt = cfg.max_retries
     /\ gets = cfg.max_retries
     /\ Len(sleeps) = cfg.max_retries - 1
     /\ \A i \in 1..Len(sleeps) :
          sleeps[i] = IF i = 1 THEN cfg.base_backoff ELSE 2 * sleeps[i - 1]

\* three attempts failed transiently: two sleeps, the second twice the first
C3_Witness ==
  /\ OpenRaised /\ TransientErr(err)
  /\ cfg.max_retries = 3 /\ cfg.base_backoff = 2
  /\ gets = 3 /\ sleeps = <<2, 4>>

\* the step of download()'s except RequestException handler
RequestFailureHandled ==
  pc = "except" /\ err.type \in RequestExceptions /\ pc' = "propagate"

\* C4 as stated: on a stream-level failure, a from-scratch transfer
\* (truncate mode, zero prior bytes) has its target deleted before exit 1; a
\* resuming one (append mode) keeps its file with all its bytes.
C4_Original ==
  [][ RequestFailureHandled =>
        /\ err' = SystemExit(1)
        /\ (dl.mode = "wb" /\ dl.downloaded_initial_size = 0
              => ~fs'[dl.final_out_path].exists)
        /\ (dl.mode = "ab" => fs' = fs) ]_vars

\* C4, amended: on a stream-level failure a from-scratch transfer has its
\* target deleted before exit 1 unless the deletion itself fails with an
\* OSError ("Could not delete": the file stays, the exit status is still
\* 1); a resuming one keeps its file with all its bytes.  No other file is
\* touched.
C4_CleanupOnFailure ==
  [][ RequestFailureHandled =>
        /\ err' = SystemExit(1)
        /\ (dl.mode = "wb" /\ dl.downloaded_initial_size = 0
              => \/ fs' = [fs EXCEPT ![dl.final_out_path] = NoFile]
                 \/ fs' = fs /\ dl'.could_not_delete)
        /\ (dl.mode = "ab" => fs' = fs /\ ~dl'.could_not_delete) ]_vars

\* the stream broke after a chunk of a from-scratch transfer was written,
\* and the target is gone
C4_Witness ==
  /\ pc = "propagate" /\ err = SystemExit(1)
  /\ dl.opened = "wb" /\ dl.dl_sess > 0
  /\ ~fs[dl.final_out_path].exists

\* C5: the exit status of the process tells the four outcomes of a run
\* apart.  For a run over one URL: the process ends with 0 when download()
\* returned, and with the status download() left with (1 generic failure, 2
\* checksum mismatch, 130 cancellation) otherwise, so that no two outcomes
\* share a status.
C5_ExitStatusDistinguishes ==
  (pc = "exited" /\ Len(urls) = 1 /\ Len(runs) = 1
     /\ runs[1].code \in {0, 1, 2, 130})
  => procExit = runs[1].code

\* C6: the URLs are taken in list order, a failed URL is followed by the
\* next one, and only a cancellation (status 130) stops the batch: a run
\* that ended with a URL of the list still untried ended with 130.
C6_OnlyCancelStopsBatch ==
  /\ \A i \in 1..Len(attempted) : i <= Len(urls)
  /\ Len(runs) <= Len(urls)
  /\ \A i \in 1..Len(runs) : runs[i].url = urls[i]
  /\ (pc = "exited" /\ ns.input_readable /\ idx < Len(urls)
        => procExit = 130)

\* the step of the verifier that ends it (not an interruption of it)
VerifierEnds ==
  pc \in {"verify", "verify_ac"} /\ err'.type # "KeyboardInterrupt"

\* C7: for a file whose content hashes to D, the verifier given D reports a
\* match and leaves every file in place; given any other digest it reports
\* a mismatch, unlinks the file and leaves with sys.exit(2), also when the
\* unlink fails (then the file stays and "Could not delete" is reported).
C7_ChecksumRoundTrip ==
  [][ VerifierEnds =>
        LET path == dl.final_out_path
            D == HexDigest(fs[path].data)
        IN  IF dl.expected_sha256 = D
            THEN /\ pc' = "returned" /\ dl'.checked
                 /\ fs' = fs /\ err' = NoErr
            ELSE /\ pc' = "propagate" /\ err' = SystemExit(2)
                 /\ ~dl'.checked
                 /\ \/ fs' = [fs EXCEPT ![path] = NoFile]
                    \/ fs' = fs /\ dl'.could_not_delete ]_vars

\* a mismatch whose unlink failed: the file is still there, the exit is 2
C7_Witness ==
  /\ pc = "propagate" /\ err = SystemExit(2)
  /\ dl.could_not_delete /\ fs[dl.final_out_path].exists
  /\ HexDigest(fs[dl.final_out_path].data) # dl.expected_sha256

\* the pass before this one was for the same URL with the same digest and
\* the same target, and its download() returned with the digest checked
RerunOfVerified ==
  /\ Planned /\ idx >= 2 /\ Len(runs) = idx - 1
  /\ runs[idx - 1].url = dl.url
  /\ runs[idx - 1].code = 0 /\ runs[idx - 1].checked
  /\ runs[idx - 1].sha = dl.expected_sha256
  /\ runs[idx - 1].path = dl.final_out_path

Cancelling(e) == e.type = "KeyboardInterrupt" \/ e = SystemExit(130)

\* C10: a KeyboardInterrupt, wherever it arrives, is not retried and is not
\* taken for a per-URL failure: from the step that raises it on, no file
\* changes, no GET is issued, no sleep is taken, the for loop does not move
\* on, and the process ends with status 130.
C10_CancelStops ==
  [][ Cancelling(err) \/ Cancelling(err') =>
        /\ fs' = fs
        /\ gets' \in {gets, 0} /\ Len(sleeps') <= Len(sleeps)
        /\ attempted' = attempted
        /\ idx' = idx /\ success_count' = success_count
        /\ pc' \in {"except", "propagate", "exited"}
        /\ (pc' = "exited" => procExit' = 130)
        /\ (pc' # "exited" => Cancelling(err')) ]_vars

\* the first URL of a list was cancelled while its second chunk was due:
\* the partial file is on disk, the second URL was never tried, status 130
C10_Witness ==
  /\ pc = "exited" /\ procExit = 130
  /\ idx = 1 /\ Len(urls) = 2 /\ Len(attempted) = 1
  /\ fs["f1"].exists /\ Size(fs["f1"]) = 1

\* the guard's case: the stream is open, its length header is read, the
\* target total size T is known and the free space was read
GuardConsulted ==
  /\ pc = "opened" /\ r.cl # -1
  /\ TotalProg(dl, r.cl) > 0
  /\ dl.free # -1

\* the additional bytes a transfer to total size T needs
AdditionalBytes(T) ==
  IF dl.mode = "wb" THEN T ELSE T - dl.downloaded_initial_size

\* C11: when the target total size T is known and the free space read by
\* the guard is smaller than the additional bytes required (T when
\* truncating, T minus the bytes on disk when appending), download() leaves
\* with sys.exit(1) before the target is opened: no file is created,
\* truncated or extended, then or later in the call.
C11_DiskSpaceGuard ==
  /\ [][ GuardConsulted /\ dl.free < AdditionalBytes(TotalProg(dl, r.cl))
           => /\ err' = SystemExit(1) /\ pc' = "propagate"
              /\ fs' = fs /\ dl'.opened = "" ]_vars
  /\ [][ pc = "propagate" /\ err = SystemExit(1) /\ dl.opened = ""
           => fs' = fs ]_vars

\* a partial file of one chunk was to be resumed, one more chunk was needed
\* and no room was left: the file is as it was and the exit is 1
C11_Witness ==
  /\ pc = "propagate" /\ err = SystemExit(1)
  /\ dl.mode = "ab" /\ dl.downloaded_initial_size = 1
  /\ dl.original_total_size = RemoteLen /\ dl.free = 0
  /\ dl.opened = ""
  /\ fs[dl.final_out_path] = File(SubSeq(Remote(dl.url), 1, 1))

\* C12: an HTTP error status outside TRANSIENT_STATUS on a stream-open
\* attempt is never retried: the only HTTP errors _open_stream sleeps on are
\* those with a transient status; any other is raised by the attempt that
\* got it, whatever budget is left, without a sleep, and no GET follows it
\* in the call.
C12_NonTransientStatusFailsAtOnce ==
  /\ [][ pc = "open" /\ pc' = "backoff" /\ os'.exc.type = "HTTPError"
           => os'.exc.code \in TRANSIENT_STATUS ]_vars
  /\ [][ pc = "open" /\ err'.type = "HTTPError"
           => /\ pc' = "except" /\ r' = NoResp
              /\ sleeps' = sleeps /\ gets' = gets + 1 ]_vars
  /\ [][ pc = "except" /\ err.type = "HTTPError"
           => pc' = "propagate" /\ gets' = gets /\ sleeps' = sleeps ]_vars

\* a 404 on the first of three attempts: raised at once, nothing slept
C12_Witness ==
  /\ OpenRaised /\ err = HttpError(404)
  /\ cfg.max_retries = 3 /\ os.attempt = 1
  /\ gets = 1 /\ sleeps = <<>>

\* requests' exceptions for the errors the spec calls permanent
PermanentErrors == {"NameResolution", "SSLError"}

\* C13: a permanent network error on stream open (a name that does not
\* resolve, a TLS failure) is fatal at once: _open_stream never takes a
\* backoff sleep for it.
C13_PermanentErrorNotRetried ==
  pc = "backoff" => os.exc.type \notin PermanentErrors

\* C14: a sidecar that is missing, fails to download, is empty or does not
\* start with 64 hex characters is never fatal: fetch_remote_sha256 returns
\* and download() is called for the URL, with no digest unless the sidecar
\* gave a well-formed one.
C14_BadSidecarNotFatal ==
  [][ pc = "sidecar" /\ err'.type # "KeyboardInterrupt"
        => /\ pc' = "probe" /\ err' = NoErr
           /\ dl'.url = urls[idx]
           /\ (dl'.expected_sha256 = NoDigest
                 \/ IsHex64(dl'.expected_sha256)) ]_vars

\* C15: a Content-Length that is not a number is read as 0 (unknown), in the
\* probe response and in the stream response: no ValueError is raised, the
\* probe is followed by the plan and the stream response by the disk-space
\* guard or the write loop.
C15_BadLengthIsUnknown ==
  [][ /\ (pc = "probe" /\ err'.type # "KeyboardInterrupt"
            => pc' = "plan" /\ err' = NoErr)
      /\ (pc = "opened" => err'.type # "ValueError") ]_vars

\* the probe of the current call failed and the plan is made
ProbeFailed == dl.url # "" /\ pc # "probe" /\ ~dl.head_resp

\* C16: a failed metadata probe is not fatal.  The step of a failed probe
\* goes on to the plan with total size 0, range support undeclared and the
\* target where it was; the call then always reaches the stream open (it
\* never takes "already downloaded"); and when the stream is open the total
\* size is the one its Content-Length gives (the disk-space guard stops the
\* transfer exactly when the free space read is below it) and the target is
\* moved by its filename hint, unless -o was given.
C16_ProbeFailureNotFatal ==
  /\ [][ pc = "probe" /\ err'.type # "KeyboardInterrupt" /\ ~dl'.head_resp
           => /\ pc' = "plan" /\ err' = NoErr
              /\ dl'.original_total_size = 0
              /\ ~dl'.server_supports_resume
              /\ dl'.final_out_path = dl.initial_out_path ]_vars
  /\ [][ ProbeFailed /\ pc = "plan" => pc' = "open" /\ fs' = fs ]_vars
  /\ [][ ProbeFailed /\ pc = "opened" /\ r.cl # -1
           => /\ (err' = SystemExit(1)) <=> (dl.free # -1 /\ dl.free < r.cl)
              /\ dl'.final_out_path =
                   IF ~dl.explicit_output_given /\ r.cd # ""
                   THEN r.cd ELSE dl.initial_out_path ]_vars

\* the probe failed, the stream response named the file "cd" and gave its
\* length: the download went there and returned
C16_Witness ==
  /\ ProbeFailed /\ pc = "returned"
  /\ dl.initial_out_path = "f1" /\ dl.final_out_path = "cd"
  /\ fs["cd"] = File(Remote(dl.url))

\* C20: when download() returns and the probe reported a total size T > 0,
\* the target file on disk has exactly T bytes, in truncate mode and in
\* append mode, for a 206 and for a 200 answer.
C20_FinalSizeIsTotal ==
  ( /\ pc = "returned"
    /\ dl.head_resp /\ dl.original_total_size > 0 )
  => /\ fs[dl.final_out_path].exists
     /\ Size(fs[dl.final_out_path]) = dl.original_total_size

\* a step inside one call of download()
InCall == dl.url # "" /\ dl'.url # ""

\* C17: the write target of a call never changes when -o was given;
\* otherwise it changes at most once, and only before a byte is written: the
\* first filename hint that arrives (the probe's, else the stream
\* response's) names it, and a hint that arrives after one was taken is
\* ignored.
C17_TargetRelocatedOnce ==
  [][ InCall =>
        /\ (dl.explicit_output_given
              => dl'.final_out_path = dl.initial_out_path)
        /\ (dl'.final_out_path # dl.final_out_path
              => /\ dl.final_out_path = dl.initial_out_path
                 /\ dl.dl_sess = 0 /\ dl.opened = "")
        /\ (dl.cd_fn # "" => dl'.final_out_path = dl.cd_fn)
        /\ (pc = "opened" /\ ~dl.explicit_output_given /\ dl.cd_fn = ""
              /\ r.cd # ""
              => dl'.final_out_path = r.cd) ]_vars

\* a malformed --sha256 was given, or the URL-list file cannot be read
InputError ==
  \/ ~ns.input_readable
  \/ Truthy(ns.sha256) /\ InvalidShaArg(Lower(ns.sha256))

\* C18: with a malformed --sha256 or an unreadable URL-list file no network
\* request is ever issued (no sidecar GET, no probe, no stream GET), no URL
\* is handed to download(), and the run does not end as a success: the
\* process does not end with status 0.
C18_InputErrorEndsRun ==
  InputError
  => /\ pc \in {"start", "main", "exited"}
     /\ attempted = <<>> /\ gets = 0 /\ success_count = 0
     /\ (pc = "exited" => procExit # 0)

\* C19: with a bandwidth limit of L chunks per second, when the write loop
\* has completed after B chunks, at least B / L seconds have elapsed in the
\* session (elapsed_bw is the time on the clock at the last throttle, after
\* which the loop needs no more time than the write itself).
C19_BandwidthCeiling ==
  ( /\ cfg.bandwidth_limit > 0
    /\ pc \in {"verify", "returned"} /\ dl.opened # "" )
  => dl.elapsed_bw * cfg.bandwidth_limit >= dl.dl_sess * TICKS

\* C21: in append mode the offset of the Range header is the size, when it
\* is opened, of the file the chunks are appended to: the step that opens
\* the target in "ab" opens a file of dl.range bytes, which is the file the
\* plan looked at, whatever filename hint the stream response carries.
C21_OffsetIsSizeOfTarget ==
  [][ pc = "opened" /\ pc' = "writing" /\ dl.mode = "ab"
        => /\ dl'.final_out_path = dl.final_out_path
           /\ fs'[dl'.final_out_path].exists
           /\ Size(fs'[dl'.final_out_path]) = dl.range ]_vars

\* C22: when _open_stream raises (no attempt gave a stream, no byte of this
\* transfer was written), the handler of download() leaves every file as it
\* is: a target that was there before the call is still there, unchanged.
C22_FailedOpenKeepsFile ==
  [][ OpenRaised => fs' = fs ]_vars

\* C23: best-effort resume. Once the plan is taken, a local file of N > 0
\* bytes with resume requested and the remote total unknown or greater than
\* N gives start offset N, append mode and Range: bytes=N-, whatever the
\* probe said about byte ranges and also when the probe failed; the plan
\* without a start offset in truncate mode is taken only when resume is
\* off, the file is absent or empty, or the file is not shorter than a
\* known total.
C23_BestEffortResume ==
  Planned =>
    /\ ( dl.resume /\ dl.local_size > 0
           /\ (dl.original_total_size = 0
                 \/ dl.original_total_size > dl.local_size) )
         => /\ dl.mode = "ab"
            /\ dl.downloaded_initial_size = dl.local_size
            /\ dl.range = dl.local_size
    /\ ( dl.mode = "wb" /\ dl.range = -1 )
         => \/ ~dl.resume
            \/ dl.local_size <= 0
            \/ /\ dl.original_total_size # 0
               /\ dl.local_size >= dl.original_total_size

\* resume of a partial file after a probe that answered without declaring
\* byte ranges, and a stream that was opened with the Range header
C23_Witness ==
  /\ pc = "opened" /\ dl.resume /\ dl.head_resp
  /\ ~dl.server_supports_resume
  /\ dl.original_total_size > dl.local_size
  /\ dl.local_size > 0 /\ dl.mode = "ab" /\ dl.range = dl.local_size

\* download() goes on to a transfer: the plan is taken and the stream is
\* being opened, is open or is being read
Transferring == Planned /\ pc \in {"open", "backoff", "opened", "writing"}

\* the total the transfer is measured against, known once the stream is
\* open and its Content-Length was read (0: not known yet, or unknown)
TargetTotal ==
  IF pc = "opened" /\ r.cl # -1 THEN TotalProg(dl, r.cl)
  ELSE dl.original_total_size

\* the Range header is there exactly in append mode, with the start offset
RangeIffAppend ==
  /\ (dl.range >= 0) <=> (dl.mode = "ab")
  /\ dl.mode = "ab" => dl.range = dl.downloaded_initial_size
  /\ dl.mode = "wb" => dl.downloaded_initial_size = 0

\* C24: in every state in which download() goes on to a transfer, the start
\* offset is at most the target total when that total is known and
\* nonzero, strictly less in append mode, and the Range header is present
\* exactly in append mode, with the start offset.
C24_OffsetWithinTotal ==
  Transferring =>
    /\ TargetTotal # 0
         => /\ dl.downloaded_initial_size <= TargetTotal
            /\ dl.mode = "ab" => dl.downloaded_initial_size < TargetTotal
    /\ RangeIffAppend

\* what holds of the totals: the offset is at most the total, and strictly
\* less in append mode when the total comes from the probe or from a stream
\* response with a positive Content-Length
OffsetAtMostTotal ==
  Transferring =>
    /\ TargetTotal # 0
         => /\ dl.downloaded_initial_size <= TargetTotal
            /\ ( dl.mode = "ab"
                   /\ (dl.original_total_size # 0
                         \/ (pc = "opened" /\ r.cl > 0)) )
                 => dl.downloaded_initial_size < TargetTotal
    /\ RangeIffAppend

\* _open_stream has returned a stream to the running call of download()
StreamReturned == dl.url # "" /\ r # NoResp

\* C25: once _open_stream has returned a stream, no further GET is issued in
\* that call of download(), and a transient exception raised while the
\* chunks are read is handled by ending the call with sys.exit(1), without
\* going back to the stream opener.
C25_NoRetryAfterOpen ==
  [][ StreamReturned
        => /\ gets' <= gets
           /\ pc' \notin {"open", "backoff"}
           /\ (pc = "except" /\ TransientErr(err))
                => (err' = SystemExit(1) /\ pc' = "propagate") ]_vars

\* a chunked-encoding error after the first chunk was written: one GET was
\* made and the handler is entered
C25_Witness ==
  /\ StreamReturned /\ pc = "except"
  /\ err = Exc("ChunkedEncodingError")
  /\ dl.dl_sess > 0 /\ gets = 1

\* the call of download() is inside _open_stream
InOpenStream == dl.url # "" /\ pc \in {"open", "backoff"}

\* C26: _open_stream always terminates. One counter counts the attempts of
\* both failure kinds (it equals the number of GETs made), the GETs never
\* exceed max(1, max_retries), another GET is only started while the budget
\* is not used up, the call is left by returning the response or by raising
\* the error of the GET just made (or by the user's interruption), and
\* every call that entered _open_stream leaves it.
C26_OpenStreamTerminates ==
  /\ [](dl.url # "" => gets <= Max(1, cfg.max_retries))
  /\ [](InOpenStream
          => /\ os.attempt = gets
             /\ gets < Max(1, cfg.max_retries))
  /\ [][ (InOpenStream /\ ~InOpenStream')
           => \/ pc' = "opened" /\ r' # NoResp /\ gets' = gets + 1
              \/ /\ pc' = "except" /\ err'.type \in RequestExceptions
                 /\ gets' = gets + 1 /\ os'.attempt = gets'
              \/ err'.type = "KeyboardInterrupt" /\ gets' = gets ]_vars
  /\ (InOpenStream ~> ~InOpenStream)

\* a transient status and a transient exception in one call: two sleeps and
\* the third GET raises, with a budget of three
C26_Witness ==
  /\ OpenRaised /\ cfg.max_retries = 3 /\ gets = 3 /\ Len(sleeps) = 2
  /\ err.type = "HTTPError" /\ err.code = 503

\* a budget of zero still makes one GET
C26_WitnessZero ==
  /\ OpenRaised /\ cfg.max_retries = 0 /\ gets = 1 /\ sleeps = <<>>

\* C27: with an expected digest set for the URL, the transfer is counted in
\* success_count only if the verifier found the SHA-256 of the final file
\* equal to the expected digest, or the final file has zero bytes and the
\* verifier was skipped; a file that mismatches is never counted, after a
\* transfer and on the "already downloaded" path alike.
C27_SuccessMeansVerified ==
  [][ (success_count' # success_count /\ Truthy(dl.expected_sha256))
        => LET f == fs[dl.final_out_path]
           IN  /\ success_count' = success_count + 1
               /\ f.exists
               /\ \/ dl.checked /\ HexDigest(f.data) = dl.expected_sha256
                  \/ ~dl.checked /\ Size(f) = 0 ]_vars

\* an "already downloaded" file was verified against the expected digest
\* (no GET was made) and the call is about to be counted
C27_Witness ==
  /\ pc = "returned" /\ Truthy(dl.expected_sha256)
  /\ dl.checked /\ dl.opened = "" /\ gets = 0
  /\ HexDigest(fs[dl.final_out_path].data) = dl.expected_sha256

\* a transfer of an empty resource with an expected digest: the verifier
\* is skipped and the call is about to be counted
C27_WitnessEmpty ==
  /\ pc = "returned" /\ Truthy(dl.expected_sha256)
  /\ ~dl.checked /\ dl.opened = "wb" /\ gets = 1
  /\ fs[dl.final_out_path].exists
  /\ Size(fs[dl.final_out_path]) = 0

\* two strings that are equal when case is ignored
SameIgnoringCase(a, b) == a.val = b.val /\ a.len = b.len /\ a.hex = b.hex

\* the digest strings the run may have been given for the URL: the
\* --sha256 argument, or else what the sidecar file holds
GivenDigests == IF Truthy(ns.sha256) THEN {ns.sha256} ELSE server.sidecars

\* C28: the comparison of digests ignores case. When the verifier ends for
\* an expected digest that was given by --sha256 or found in the sidecar
\* file, in uppercase, it reports "Checksum OK" exactly when the SHA-256
\* hex digest of the file equals the given digest with case ignored.
C28_CaseInsensitive ==
  [][ VerifierEnds =>
        LET D == HexDigest(fs[dl.final_out_path].data)
        IN  /\ \E g \in GivenDigests :
                 ~g.lower /\ SameIgnoringCase(g, dl.expected_sha256)
            /\ (pc' = "returned" /\ dl'.checked)
                 <=> \E g \in GivenDigests : SameIgnoringCase(g, D) ]_vars

\* an uppercase digest found in the sidecar file matched the file
C28_Witness ==
  /\ pc = "returned" /\ dl.checked
  /\ ~Truthy(ns.sha256)
  /\ \A g \in server.sidecars : ~g.lower
  /\ HexDigest(fs[dl.final_out_path].data) = dl.expected_sha256

\* an uppercase digest given by --sha256 matched the file
C28_WitnessExplicit ==
  /\ pc = "returned" /\ dl.checked
  /\ Truthy(ns.sha256) /\ ~ns.sha256.lower
  /\ HexDigest(fs[dl.final_out_path].data) = Lower(ns.sha256)

====
